---- MODULE Spec2Model ----
(***************************************************************************)
(* The score request of grid_agent (src/endpoints.py, score): the agent    *)
(* produces three weights, the three metric tables are fetched, every      *)
(* hexagon of their union gets a weighted composite score, the hexagons    *)
(* are ranked, the top five are resolved to place names and the response   *)
(* is returned, or the request ends in an HTTP error.  The information     *)
(* request that a client sends next with the highlighted hexagons of the  *)
(* response (src/endpoints.py, information) follows in SpecProbe.         *)
(*                                                                         *)
(* Numbers.  Weights are integers in units of 1/WDen (the weight 1.0 is    *)
(* WDen).  Normalized scores of the tables are the integers -1 and 1.      *)
(* aggregated_score is therefore in units of 1/WDen, and the normalized    *)
(* aggregated score (HexagonData.score) in units of 1/(2*WDen): 0.0 is 0   *)
(* and 1.0 is ScoreOne.  The arithmetic is exact.                          *)
(*                                                                         *)
(* Values.  A JSON value is None (<<>>) or Some(v) (<<v>>); a row of a     *)
(* table is a function from the keys it has to such values, so that        *)
(* dict.get distinguishes a key that is absent from a key that is null.    *)
(***************************************************************************)
EXTENDS Integers, Sequences, FiniteSets, TLC

\* ---------------------------------------------------------------- bounds
\* Weights are multiples of 1/WDen.
WDen == 6
\* At most MaxRecords rows in the three tables of the small store together.
MaxRecords == 2
\* The wide store knows the hexagons 1..WideIds.
WideIds == 6
\* The interpreter's string hash seed is one of 0..MaxSeed.
MaxSeed == 1

\* ------------------------------------------------------- program constants
\* ranked_data[:5]
TOP_K == 5

\* ------------------------------------------------------------ JSON values
None == <<>>

Some(v) == <<v>>

\* dict.get(k): the value of the key, None when the key is absent
Get(rec, k) == IF k \in DOMAIN rec THEN rec[k] ELSE None

\* the truth value Python gives a hexagon_id: None, 0 and "" are false
Truthy(x) == x # None /\ x[1] # 0

EmptyDict == <<>>

Max2(a, b) == IF a >= b THEN a ELSE b

Min2(a, b) == IF a <= b THEN a ELSE b

\* ------------------------------------------------------------- the tables
Tables == {"grid_data", "network_data", "temperature_data"}

NormKey(t) ==
    CASE t = "grid_data" -> "connection_normalized_score"
      [] t = "network_data" -> "latency_normalized_score"
      [] t = "temperature_data" -> "temperature_normalized_score"

RawKey(t) ==
    CASE t = "grid_data" -> "connection_points"
      [] t = "network_data" -> "latency_ms"
      [] t = "temperature_data" -> "avg_temperature"

\* The hexagon identifiers of the small store (opaque; 0 stands for an
\* identifier that Python takes as false).
HexagonIds == {1, 2}

\* The normalized scores a row may carry.
NormVals == {-1, 1}

\* The rows the small store may hold at position i of table t: a row without
\* hexagon_id (the key absent at odd positions, null at even ones), or a row
\* of a hexagon whose normalized score is absent, null or a number.  The raw
\* measurement of a row is its position, so that two rows of one table are
\* told apart.
RowsAt(t, i) ==
    LET raw == (RawKey(t) :> Some(i))
        WithId(h) == ("hexagon_id" :> Some(h)) @@ raw
        NoId == IF i % 2 = 1 THEN raw ELSE ("hexagon_id" :> None) @@ raw
    IN  {NoId @@ (NormKey(t) :> Some(1))}
        \cup {WithId(h) : h \in HexagonIds}
        \cup {WithId(h) @@ (NormKey(t) :> None) : h \in HexagonIds}
        \cup {WithId(h[1]) @@ (NormKey(t) :> Some(h[2])) : h \in HexagonIds \X NormVals}

RECURSIVE TablesOfLen(_, _)
TablesOfLen(t, n) ==
    IF n = 0 THEN {<<>>}
    ELSE {Append(s, r) : s \in TablesOfLen(t, n - 1), r \in RowsAt(t, n)}

\* the contents table t of the small store may have when `room` rows are left
StoreTables(t, room) == UNION {TablesOfLen(t, n) : n \in 0..room}

\* What the wide store may hold of hexagon h in table t: in grid_data no row,
\* a row whose score is null or a row of score 1; in network_data a row of
\* score -1 for every second hexagon; in temperature_data a row of score 1
\* for every third hexagon.  (<<>> is no row, <<r>> the row r.)
WideRows(t, h) ==
    LET row(norm) == <<("hexagon_id" :> Some(h)) @@ (RawKey(t) :> Some(h))
                         @@ (NormKey(t) :> norm)>>
    IN  CASE t = "grid_data" -> {<<>>, row(None), row(Some(1))}
          [] t = "network_data" -> IF h % 2 = 0 THEN {row(Some(-1))} ELSE {<<>>}
          [] t = "temperature_data" -> IF h % 3 = 0 THEN {row(Some(1))} ELSE {<<>>}

\* The hexagon of the probe store.
ProbeId == 1

\* The normalized scores a row of the probe store may carry.
ProbeVals == {-1, 0, 1}

\* The contents table t of the probe store may have: no row, or one row of
\* the hexagon ProbeId whose normalized score is absent, null or a number.
ProbeTables(t) ==
    LET row == ("hexagon_id" :> Some(ProbeId)) @@ (RawKey(t) :> Some(ProbeId))
    IN  {<<>>, <<row>>, <<row @@ (NormKey(t) :> None)>>}
        \cup {<<row @@ (NormKey(t) :> Some(v))>> : v \in ProbeVals}

RECURSIVE WideTablesUpTo(_, _)
WideTablesUpTo(t, h) ==
    IF h = 0 THEN {<<>>}
    ELSE {s \o r : s \in WideTablesUpTo(t, h - 1), r \in WideRows(t, h)}

\* the contents table t of the wide store may have
WideTables(t) == WideTablesUpTo(t, WideIds)

\* ------------------------------------------------------------ the weights
ScorerFields == {"score_grid", "score_temperature", "score_network"}

Weights(g, t, n) == [score_grid |-> g, score_temperature |-> t, score_network |-> n]

\* the weight vectors in units of 1/WDen that are not negative and sum to 1
ValidWeights ==
    {Weights(g, t, WDen - g - t) : g \in 0..WDen, t \in 0..WDen} \cap
        [ScorerFields -> 0..WDen]

\* What the agent may return as weights: two vectors that are non-negative
\* and sum to 1, one that sums to 0, and one that sums to 1 with a negative
\* component.
WeightChoices ==
    { Weights(WDen \div 2, 0, WDen - (WDen \div 2)),
      Weights(WDen \div 3, WDen - 2 * (WDen \div 3), WDen \div 3),
      Weights(0, 0, 0),
      Weights(2 * WDen, 0 - WDen, 0) }

\* The payloads agent.run may return: three weights, three weights and a
\* further key, the error object of the return_scores tool, or an object
\* that lacks a weight.
AgentPayloads ==
    WeightChoices
    \cup {w @@ ("comment" :> 0) : w \in {Weights(WDen \div 2, 0, WDen - (WDen \div 2))}}
    \cup {("error" :> 0)}
    \cup {[score_grid |-> WDen, score_network |-> 0]}

\* Scorer.model_validate: the three fields are required, other keys are
\* ignored
SchemaValid(p) == ScorerFields \subseteq DOMAIN p

\* validated.model_dump(): the three fields of the model
ModelDump(p) == [f \in ScorerFields |-> p[f]]

\* ------------------------------------------------------- the aggregation
\* BuildDict in which the first row of a hexagon is kept
BuildDictFirstWins(data) ==
    LET idx == {i \in 1..Len(data) : Truthy(Get(data[i], "hexagon_id"))}
        id(i) == Get(data[i], "hexagon_id")[1]
    IN  [h \in {id(i) : i \in idx} |->
            data[CHOOSE i \in idx : id(i) = h /\ \A j \in idx : id(j) = h => i <= j]]

\* {item.get('hexagon_id'): item for item in data if item.get('hexagon_id')}:
\* a later row of a hexagon replaces an earlier one
RECURSIVE BuildDict(_)
BuildDict(data) ==
    IF data = <<>> THEN EmptyDict
    ELSE LET item == data[Len(data)]
             rest == BuildDict(SubSeq(data, 1, Len(data) - 1))
         IN  IF Truthy(Get(item, "hexagon_id"))
             THEN (Get(item, "hexagon_id")[1] :> item) @@ rest
             ELSE rest

\* d.get(record_id, {})
DictGet(d, k) == IF k \in DOMAIN d THEN d[k] ELSE EmptyDict

\* AllIds with the keys of temp_dict left out of the union
AllIdsWithoutTemp(gd, nd, td) == DOMAIN gd \cup DOMAIN nd

\* set(grid_dict.keys()) | set(network_dict.keys()) | set(temp_dict.keys())
AllIds(gd, nd, td) == DOMAIN gd \cup DOMAIN nd \cup DOMAIN td

RECURSIVE Ascending(_)
Ascending(S) ==
    IF S = {} THEN <<>>
    ELSE LET m == CHOOSE x \in S : \A y \in S : x <= y
         IN  <<m>> \o Ascending(S \ {m})

\* The order in which `for record_id in all_ids` visits a set of strings.  It
\* follows the strings' hashes, which the interpreter salts with a seed drawn
\* when the process starts: a seed rotates the order.
SetIter(S, seed) ==
    LET a == Ascending(S)
        n == Len(a)
    IN  [i \in 1..n |-> a[((i - 1 + seed) % n) + 1]]

\* NormOf with 0 in place of a score that is missing or null
NormOfMissingZero(record, key) ==
    IF Get(record, key) # None THEN Get(record, key)[1] ELSE 0

\* record.get(key, -1) if record.get(key) is not None else -1
NormOf(record, key) == IF Get(record, key) # None THEN Get(record, key)[1] ELSE -1

\* weights['score_grid'] * grid_norm + weights['score_network'] * network_norm
\*   + weights['score_temperature'] * temp_norm, in units of 1/WDen
AggregatedScore(w, grid_norm, network_norm, temp_norm) ==
    w.score_grid * grid_norm + w.score_network * network_norm
        + w.score_temperature * temp_norm

\* 1.0 in the units of the normalized aggregated score
ScoreOne == 2 * WDen

\* Rescale without the clamp: (aggregated_score + 1) / 2
RescaleUnclamped(aggregated_score) == aggregated_score + WDen

\* max(0, min(1, (aggregated_score + 1) / 2)), in units of 1/(2*WDen)
Rescale(aggregated_score) == Max2(0, Min2(ScoreOne, aggregated_score + WDen))

\* NormalizedAggregatedScore without the branch for hexagons without data
NormalizedWithoutBranch(aggregated_score, grid_norm, network_norm, temp_norm) ==
    Rescale(aggregated_score)

\* the normalized aggregated score of a hexagon
NormalizedAggregatedScore(aggregated_score, grid_norm, network_norm, temp_norm) ==
    IF grid_norm = -1 /\ network_norm = -1 /\ temp_norm = -1
    THEN 0
    ELSE Rescale(aggregated_score)

GridNorm(gd, id) == NormOf(DictGet(gd, id), NormKey("grid_data"))

NetworkNorm(nd, id) == NormOf(DictGet(nd, id), NormKey("network_data"))

TempNorm(td, id) == NormOf(DictGet(td, id), NormKey("temperature_data"))

\* aggregated_score of hexagon id
ScoreOf(w, gd, nd, td, id) ==
    AggregatedScore(w, GridNorm(gd, id), NetworkNorm(nd, id), TempNorm(td, id))

\* the HexagonData built for hexagon id
HexagonDataOf(w, gd, nd, td, id) ==
    [ score |-> NormalizedAggregatedScore(ScoreOf(w, gd, nd, td, id),
                    GridNorm(gd, id), NetworkNorm(nd, id), TempNorm(td, id)),
      connection_points |-> Get(DictGet(gd, id), "connection_points"),
      latency_ms |-> Get(DictGet(nd, id), "latency_ms"),
      avg_temperature |-> Get(DictGet(td, id), "avg_temperature"),
      connection_normalized_score |-> Get(DictGet(gd, id), "connection_normalized_score"),
      latency_normalized_score |-> Get(DictGet(nd, id), "latency_normalized_score"),
      temperature_normalized_score |-> Get(DictGet(td, id), "temperature_normalized_score") ]

\* hexagon_data_dict after the loop over all_ids
HexagonDataDict(w, gd, nd, td) ==
    [id \in AllIds(gd, nd, td) |-> HexagonDataOf(w, gd, nd, td, id)]

\* scored_data after the loop over all_ids, visited in the order `order`
ScoredData(w, gd, nd, td, order) ==
    [i \in 1..Len(order) |->
        [hexagon_id |-> order[i], aggregated_score |-> ScoreOf(w, gd, nd, td, order[i])]]

\* ----------------------------------------------------------- the ranking
\* InsertDesc for a sort without reverse=True: lowest score first
InsertAsc(sorted, item) ==
    LET ahead == {i \in 1..Len(sorted) :
                    sorted[i].aggregated_score <= item.aggregated_score}
        k == Cardinality(ahead)
    IN  SubSeq(sorted, 1, k) \o <<item>> \o SubSeq(sorted, k + 1, Len(sorted))

\* item is put behind every entry whose score is not smaller: the entries of
\* equal score keep the order in which they arrived
InsertDesc(sorted, item) ==
    LET ahead == {i \in 1..Len(sorted) :
                    sorted[i].aggregated_score >= item.aggregated_score}
        k == Cardinality(ahead)
    IN  SubSeq(sorted, 1, k) \o <<item>> \o SubSeq(sorted, k + 1, Len(sorted))

\* sorted(scored_data, key=lambda x: x['aggregated_score'], reverse=True):
\* a stable sort, highest score first
RECURSIVE Sorted(_)
Sorted(scored) ==
    IF scored = <<>> THEN <<>>
    ELSE InsertDesc(Sorted(SubSeq(scored, 1, Len(scored) - 1)), scored[Len(scored)])

\* ranked[:k] for k >= 0
Slice(ranked, k) == SubSeq(ranked, 1, Min2(k, Len(ranked)))

\* {item['hexagon_id']: item['aggregated_score'] for item in ranked_data[:5]}
TopHexagons(ranked) ==
    LET top == Slice(ranked, TOP_K)
    IN  [id \in {top[i].hexagon_id : i \in 1..Len(top)} |->
            top[CHOOSE i \in 1..Len(top) : top[i].hexagon_id = id /\
                \A j \in 1..Len(top) : top[j].hexagon_id = id => j <= i].aggregated_score]

\* f"{aggregated_score:.2f}": the score in hundredths, rounded to the nearest,
\* a tie to the even one
Format2f(aggregated_score) ==
    LET n == aggregated_score * 100
        q == n \div WDen
        r == n % WDen
    IN  IF 2 * r < WDen THEN q
        ELSE IF 2 * r > WDen THEN q + 1
        ELSE IF q % 2 = 0 THEN q ELSE q + 1

\* --------------------------------------------------------------- the state
VARIABLES
    pc,                  \* where the request is: "agent", "fetch_grid",
                         \* "fetch_network", "fetch_temperature", "present", "done"
    hash_seed,           \* the string hash seed of the server process
    supabase_configured, \* SUPABASE_URL and SUPABASE_ANON_KEY are both set
    weights,             \* validated.model_dump()
    grid_data,           \* the rows fetched from grid_data
    network_data,        \* the rows fetched from network_data
    temperature_data,    \* the rows fetched from temperature_data
    hexagon_data_dict,   \* hexagon id -> HexagonData
    scored_data,         \* the scored hexagons in the order of the loop
    ranked_data,         \* scored_data sorted, highest aggregated score first
    top_hexagons,        \* hexagon id -> aggregated score of the first five
    response_message,    \* the lines of the message written so far
    exception,           \* the exception raised inside score's try, if any
    response,            \* the response of the request, NoResponse before
    calls,               \* how often each collaborator was called, and how
                         \* many responses the request has given
    information_response \* the response of the information request that
                         \* follows the score request, NoResponse before

vars == <<pc, hash_seed, supabase_configured, weights, grid_data, network_data,
          temperature_data, hexagon_data_dict, scored_data, ranked_data,
          top_hexagons, response_message, exception, response, calls,
          information_response>>

NoResponse == [status |-> 0]

NoException == [type |-> "none"]

\* an exception of class `type` whose text is `text`
Exception(type, text) == [type |-> type, text |-> text]

\* raise HTTPException(status_code=status, detail=f"{kind}: {cause}")
HTTPException(status, kind, cause) ==
    [status |-> status, detail |-> [kind |-> kind, cause |-> cause]]

\* ScoreExcept with `except Exception` ahead of `except ValidationError`
ScoreExceptAllInternal(e) == HTTPException(500, "Internal error", e.text)

\* The except clauses of score: a pydantic ValidationError becomes a 400,
\* every other exception (an HTTPException of supabase_get too) a 500 that
\* carries the text of the exception.
ScoreExcept(e) ==
    IF e.type = "ValidationError"
    THEN HTTPException(400, "Validation error", e.text)
    ELSE HTTPException(500, "Internal error", e.text)

\* calls with one more call of collaborator c
Called(c) == [calls EXCEPT ![c] = @ + 1]

Init ==
    /\ pc = "agent"
    /\ hash_seed \in 0..MaxSeed
    /\ supabase_configured \in BOOLEAN
    /\ weights = EmptyDict
    /\ grid_data = <<>>
    /\ network_data = <<>>
    /\ temperature_data = <<>>
    /\ hexagon_data_dict = EmptyDict
    /\ scored_data = <<>>
    /\ ranked_data = <<>>
    /\ top_hexagons = EmptyDict
    /\ response_message = <<>>
    /\ exception = NoException
    /\ response = NoResponse
    /\ calls = [agent |-> 0, grid_data |-> 0, network_data |-> 0,
                temperature_data |-> 0, resolver |-> 0, responses |-> 0]
    /\ information_response = NoResponse

\* Collaborator c raises e inside the try: the request ends in the error
\* response that the except clauses make of e.
Raise(e, c) ==
    /\ pc' = "done"
    /\ exception' = e
    /\ response' = ScoreExcept(e)
    /\ calls' = [Called(c) EXCEPT !.responses = @ + 1]

\* agent.run raises (the model, a tool or the web search fails):
\* except Exception -> 500
AgentRaises ==
    /\ pc = "agent"
    /\ Raise(Exception("Exception", <<"agent.run">>), "agent")
    /\ UNCHANGED <<information_response,
                   hash_seed, supabase_configured, weights, grid_data, network_data,
                   temperature_data, hexagon_data_dict, scored_data, ranked_data,
                   top_hexagons, response_message>>

\* agent.run returns a payload that Scorer.model_validate rejects:
\* except ValidationError -> 400
AgentInvalid ==
    /\ pc = "agent"
    /\ \E p \in AgentPayloads :
        /\ ~SchemaValid(p)
        /\ Raise(Exception("ValidationError", <<"Scorer">>), "agent")
    /\ UNCHANGED <<information_response,
                   hash_seed, supabase_configured, weights, grid_data, network_data,
                   temperature_data, hexagon_data_dict, scored_data, ranked_data,
                   top_hexagons, response_message>>

\* agent.run returns a payload that Scorer.model_validate accepts; its dump
\* becomes the weights
AgentReturns ==
    /\ pc = "agent"
    /\ \E p \in AgentPayloads :
        /\ SchemaValid(p)
        /\ weights' = ModelDump(p)
    /\ pc' = "fetch_grid"
    /\ calls' = Called("agent")
    /\ UNCHANGED <<information_response,
                   hash_seed, supabase_configured, grid_data, network_data,
                   temperature_data, hexagon_data_dict, scored_data, ranked_data,
                   top_hexagons, response_message, exception, response>>

\* the table that the request fetches at pc
TableAt(p) ==
    CASE p = "fetch_grid" -> "grid_data"
      [] p = "fetch_network" -> "network_data"
      [] p = "fetch_temperature" -> "temperature_data"

FetchPcs == {"fetch_grid", "fetch_network", "fetch_temperature"}

\* the rows that the store may still hold beyond those fetched
Room == MaxRecords - Len(grid_data) - Len(network_data)

\* supabase_get finds the configuration missing and raises HTTPException(500)
\* without a request; score's except Exception turns it into its own 500
SupabaseNotConfigured ==
    /\ pc \in FetchPcs
    /\ ~supabase_configured
    /\ pc' = "done"
    /\ exception' = Exception("HTTPException",
                        <<"Supabase configuration missing", TableAt(pc)>>)
    /\ response' = ScoreExcept(exception')
    /\ calls' = [calls EXCEPT !.responses = @ + 1]
    /\ UNCHANGED <<information_response,
                   hash_seed, supabase_configured, weights, grid_data, network_data,
                   temperature_data, hexagon_data_dict, scored_data, ranked_data,
                   top_hexagons, response_message>>

\* SupabaseGetFails with a retry: the failed request is counted and the fetch
\* is made once more
SupabaseGetRetries ==
    /\ pc \in FetchPcs
    /\ supabase_configured
    /\ calls[TableAt(pc)] = 0
    /\ calls' = Called(TableAt(pc))
    /\ UNCHANGED <<information_response,
                   pc, hash_seed, supabase_configured, weights, grid_data, network_data,
                   temperature_data, hexagon_data_dict, scored_data, ranked_data,
                   top_hexagons, response_message, exception, response>>

\* requests.get or raise_for_status raises a RequestException (the store is
\* unreachable, times out or answers with an error status): supabase_get
\* raises HTTPException(500), score's except Exception its own 500
SupabaseGetFails ==
    /\ pc \in FetchPcs
    /\ supabase_configured
    /\ Raise(Exception("HTTPException",
                 <<"Error fetching data from Supabase", TableAt(pc)>>), TableAt(pc))
    /\ UNCHANGED <<information_response,
                   hash_seed, supabase_configured, weights, grid_data, network_data,
                   temperature_data, hexagon_data_dict, scored_data, ranked_data,
                   top_hexagons, response_message>>

\* grid_data, _ = supabase_get("grid_data"), the store holding one of `tables`
FetchGridFrom(tables) ==
    /\ pc = "fetch_grid"
    /\ supabase_configured
    /\ \E rows \in tables : grid_data' = rows
    /\ pc' = "fetch_network"
    /\ calls' = Called("grid_data")
    /\ UNCHANGED <<information_response,
                   hash_seed, supabase_configured, weights, network_data,
                   temperature_data, hexagon_data_dict, scored_data, ranked_data,
                   top_hexagons, response_message, exception, response>>

\* network_data, _ = supabase_get("network_data")
FetchNetworkFrom(tables) ==
    /\ pc = "fetch_network"
    /\ supabase_configured
    /\ \E rows \in tables : network_data' = rows
    /\ pc' = "fetch_temperature"
    /\ calls' = Called("network_data")
    /\ UNCHANGED <<information_response,
                   hash_seed, supabase_configured, weights, grid_data,
                   temperature_data, hexagon_data_dict, scored_data, ranked_data,
                   top_hexagons, response_message, exception, response>>

\* What score computes from the third table on, up to the first call of the
\* resolver: the three dictionaries, the loop over all_ids, the ranking and
\* the five highlighted hexagons.
Aggregate(rows) ==
    LET gd == BuildDict(grid_data)
        nd == BuildDict(network_data)
        td == BuildDict(rows)
        order == SetIter(AllIds(gd, nd, td), hash_seed)
        scored == ScoredData(weights, gd, nd, td, order)
    IN  /\ temperature_data' = rows
        /\ hexagon_data_dict' = HexagonDataDict(weights, gd, nd, td)
        /\ scored_data' = scored
        /\ ranked_data' = Sorted(scored)
        /\ top_hexagons' = TopHexagons(Sorted(scored))

\* temperature_data, _ = supabase_get("temperature_data"), and the aggregation
FetchTemperatureFrom(tables) ==
    /\ pc = "fetch_temperature"
    /\ supabase_configured
    /\ \E rows \in tables : Aggregate(rows)
    /\ pc' = "present"
    /\ calls' = Called("temperature_data")
    /\ UNCHANGED <<information_response,
                   hash_seed, supabase_configured, weights, grid_data, network_data,
                   response_message, exception, response>>

\* the entry of ranked_data[:5] whose line is written next
NextItem == ranked_data[Len(response_message) + 1]

\* the place name "Unknown"
Unknown == 0

\* the town of a hexagon (a name that is not "Unknown")
Town(hexagon_id) == hexagon_id

Line(place, item) == [place |-> place, score |-> Format2f(item.aggregated_score)]

\* get_location_from_hexagon_id: h3.cell_to_latlng raises, the identifier is
\* no H3 cell.  The call is outside latlng_to_location's try: the exception
\* reaches score's except Exception -> 500.
ResolveRaises ==
    /\ pc = "present"
    /\ Len(response_message) < Len(Slice(ranked_data, TOP_K))
    /\ Raise(Exception("H3CellInvalidError", <<"h3.cell_to_latlng", NextItem.hexagon_id>>), "resolver")
    /\ UNCHANGED <<information_response,
                   hash_seed, supabase_configured, weights, grid_data, network_data,
                   temperature_data, hexagon_data_dict, scored_data, ranked_data,
                   top_hexagons, response_message>>

\* latlng_to_location returns the town, city or village of the address
ResolveTown ==
    /\ pc = "present"
    /\ Len(response_message) < Len(Slice(ranked_data, TOP_K))
    /\ response_message' = Append(response_message, Line(Town(NextItem.hexagon_id), NextItem))
    /\ calls' = Called("resolver")
    /\ UNCHANGED <<information_response,
                   pc, hash_seed, supabase_configured, weights, grid_data, network_data,
                   temperature_data, hexagon_data_dict, scored_data, ranked_data,
                   top_hexagons, exception, response>>

\* latlng_to_location returns "Unknown": the request to Nominatim failed or
\* timed out (except Exception), or the address names no town, city or village
ResolveUnknown ==
    /\ pc = "present"
    /\ Len(response_message) < Len(Slice(ranked_data, TOP_K))
    /\ response_message' = Append(response_message, Line(Unknown, NextItem))
    /\ calls' = Called("resolver")
    /\ UNCHANGED <<information_response,
                   pc, hash_seed, supabase_configured, weights, grid_data, network_data,
                   temperature_data, hexagon_data_dict, scored_data, ranked_data,
                   top_hexagons, exception, response>>

\* return InformationResponse(response=..., hexagonData=..., highlighted=...)
Respond ==
    /\ pc = "present"
    /\ Len(response_message) = Len(Slice(ranked_data, TOP_K))
    /\ pc' = "done"
    /\ response' = [status |-> 200, response |-> response_message,
                    hexagonData |-> hexagon_data_dict, highlighted |-> top_hexagons]
    /\ calls' = [calls EXCEPT !.responses = @ + 1]
    /\ UNCHANGED <<information_response,
                   exception, hash_seed, supabase_configured, weights, grid_data, network_data,
                   temperature_data, hexagon_data_dict, scored_data, ranked_data,
                   top_hexagons, response_message>>

\* ------------------------------------------------- the information request
\* The except clauses of information: as those of score.
InformationExcept(e) ==
    IF e.type = "ValidationError"
    THEN HTTPException(400, "Validation error", e.text)
    ELSE HTTPException(500, "Internal error", e.text)

\* the sections of the formatted response: the fields of Information
InformationSections == <<"legislation", "construction_opposition", "environmental_challenges">>

\* supabase_get(table, hexagon_ids=ids): the rows whose hexagon_id is one of
\* ids
SupabaseFilter(data, ids) ==
    SelectSeq(data, LAMBDA item :
        Get(item, "hexagon_id") # None /\ Get(item, "hexagon_id")[1] \in ids)

\* The float of `highlighted` as a HexagonData.score: the number is copied, so
\* a value in units of 1/WDen is twice as many units of 1/(2*WDen).
CopiedScore(score) == 2 * score

\* hexagon_data_dict of information: for each hexagon of req.highlighted its
\* score from req.highlighted and its fields from the filtered tables.  (The
\* identifiers are strings, which str() leaves as they are.)
InformationHexagonData(highlighted, gdata, ndata, tdata) ==
    LET ids == DOMAIN highlighted
        gd == BuildDict(SupabaseFilter(gdata, ids))
        nd == BuildDict(SupabaseFilter(ndata, ids))
        td == BuildDict(SupabaseFilter(tdata, ids))
    IN  [id \in ids |->
            [ score |-> CopiedScore(highlighted[id]),
              connection_points |-> Get(DictGet(gd, id), "connection_points"),
              latency_ms |-> Get(DictGet(nd, id), "latency_ms"),
              avg_temperature |-> Get(DictGet(td, id), "avg_temperature"),
              connection_normalized_score |-> Get(DictGet(gd, id), "connection_normalized_score"),
              latency_normalized_score |-> Get(DictGet(nd, id), "latency_normalized_score"),
              temperature_normalized_score |->
                  Get(DictGet(td, id), "temperature_normalized_score") ]]

\* the client sends an information request with the `highlighted` of the
\* score response it received
InformationRequested == pc = "done" /\ response.status = 200 /\ information_response = NoResponse

\* what supabase_get raises in information when it fails for table t
InformationFetchError(t) ==
    IF supabase_configured
    THEN Exception("HTTPException", <<"Error fetching data from Supabase", t>>)
    ELSE Exception("HTTPException", <<"Supabase configuration missing", t>>)

\* information ends in an error: agent.run raises, its result fails
\* Information.model_validate, or (req.highlighted not empty) a fetch fails
InformationFails ==
    /\ InformationRequested
    /\ \E e \in {Exception("Exception", <<"agent.run", "information">>),
                 Exception("ValidationError", <<"Information", "information">>)}
                \cup (IF DOMAIN response.highlighted = {} THEN {}
                      ELSE {InformationFetchError(t) : t \in Tables}) :
          information_response' = InformationExcept(e)
    /\ UNCHANGED <<pc, hash_seed, supabase_configured, weights, grid_data, network_data,
                   temperature_data, hexagon_data_dict, scored_data, ranked_data,
                   top_hexagons, response_message, exception, response, calls>>

\* information returns: the formatted text, the HexagonData of the
\* highlighted hexagons (None when req.highlighted is empty) and
\* req.highlighted.  The store holds what the score request fetched.
InformationResponds ==
    /\ InformationRequested
    /\ DOMAIN response.highlighted # {} => supabase_configured
    /\ information_response' =
          [ status |-> 200,
            response |-> InformationSections,
            hexagonData |->
                IF DOMAIN response.highlighted = {} THEN None
                ELSE Some(InformationHexagonData(response.highlighted, grid_data,
                                                 network_data, temperature_data)),
            highlighted |-> response.highlighted ]
    /\ UNCHANGED <<pc, hash_seed, supabase_configured, weights, grid_data, network_data,
                   temperature_data, hexagon_data_dict, scored_data, ranked_data,
                   top_hexagons, response_message, exception, response, calls>>

\* the fetches from the small store
FetchGrid == FetchGridFrom(StoreTables("grid_data", Room))

FetchNetwork == FetchNetworkFrom(StoreTables("network_data", Room))

FetchTemperature == FetchTemperatureFrom(StoreTables("temperature_data", Room))

\* the fetches from the wide store
FetchGridWide == FetchGridFrom(WideTables("grid_data"))

FetchNetworkWide == FetchNetworkFrom(WideTables("network_data"))

FetchTemperatureWide == FetchTemperatureFrom(WideTables("temperature_data"))

Next ==
    \/ AgentRaises
    \/ AgentInvalid
    \/ AgentReturns
    \/ SupabaseNotConfigured
    \/ SupabaseGetFails
    \/ FetchGrid
    \/ FetchNetwork
    \/ FetchTemperature
    \/ ResolveRaises
    \/ ResolveTown
    \/ ResolveUnknown
    \/ Respond

Spec == Init /\ [][Next]_vars

\* The request over the wide store, from the point where the agent's weights
\* have been validated, the store and the resolver answering.
InitWide ==
    /\ pc = "fetch_grid"
    /\ hash_seed \in 0..MaxSeed
    /\ supabase_configured = TRUE
    /\ weights \in WeightChoices
    /\ grid_data = <<>>
    /\ network_data = <<>>
    /\ temperature_data = <<>>
    /\ hexagon_data_dict = EmptyDict
    /\ scored_data = <<>>
    /\ ranked_data = <<>>
    /\ top_hexagons = EmptyDict
    /\ response_message = <<>>
    /\ exception = NoException
    /\ response = NoResponse
    /\ calls = [agent |-> 1, grid_data |-> 0, network_data |-> 0,
                temperature_data |-> 0, resolver |-> 0, responses |-> 0]
    /\ information_response = NoResponse

NextWide ==
    \/ FetchGridWide
    \/ FetchNetworkWide
    \/ FetchTemperatureWide
    \/ ResolveTown
    \/ Respond

SpecWide == InitWide /\ [][NextWide]_vars

\* the fetches from the probe store
FetchGridProbe == FetchGridFrom(ProbeTables("grid_data"))

FetchNetworkProbe == FetchNetworkFrom(ProbeTables("network_data"))

FetchTemperatureProbe == FetchTemperatureFrom(ProbeTables("temperature_data"))

\* The score request over the probe store, from the point where the agent's
\* weights have been validated (the agent returned one of WeightChoices or a
\* vector of ValidWeights), and the information request that follows it.
InitProbe ==
    /\ pc = "fetch_grid"
    /\ hash_seed \in 0..MaxSeed
    /\ supabase_configured = TRUE
    /\ weights \in WeightChoices \cup ValidWeights
    /\ grid_data = <<>>
    /\ network_data = <<>>
    /\ temperature_data = <<>>
    /\ hexagon_data_dict = EmptyDict
    /\ scored_data = <<>>
    /\ ranked_data = <<>>
    /\ top_hexagons = EmptyDict
    /\ response_message = <<>>
    /\ exception = NoException
    /\ response = NoResponse
    /\ calls = [agent |-> 1, grid_data |-> 0, network_data |-> 0,
                temperature_data |-> 0, resolver |-> 0, responses |-> 0]
    /\ information_response = NoResponse

NextProbe ==
    \/ FetchGridProbe
    \/ FetchNetworkProbe
    \/ FetchTemperatureProbe
    \/ ResolveTown
    \/ Respond
    \/ InformationFails
    \/ InformationResponds

SpecProbe == InitProbe /\ [][NextProbe]_vars

\* The whole request over the wide store: the agent, the three fetches and
\* the resolver may each fail.
NextWhole ==
    \/ AgentRaises
    \/ AgentInvalid
    \/ AgentReturns
    \/ SupabaseNotConfigured
    \/ SupabaseGetFails
    \/ FetchGridWide
    \/ FetchNetworkWide
    \/ FetchTemperatureWide
    \/ ResolveRaises
    \/ ResolveTown
    \/ Respond

SpecWhole == Init /\ [][NextWhole]_vars

\* ------------------------------------------------------------- the claims
\* the request has run the aggregation
Aggregated ==
    \/ pc = "present"
    \/ pc = "done" /\ (response.status = 200 \/ exception.type = "H3CellInvalidError")

\* the request has returned the ranked response
Succeeded == pc = "done" /\ response.status = 200

\* the hexagon_id values of the rows of a table that carry one
IdsOf(data) ==
    {data[i]["hexagon_id"][1] :
        i \in {j \in 1..Len(data) :
                 "hexagon_id" \in DOMAIN data[j] /\ data[j]["hexagon_id"] # None}}

\* the hexagon_id values of the three fetched tables
FetchedIds == IdsOf(grid_data) \cup IdsOf(network_data) \cup IdsOf(temperature_data)

\* the hexagons of a list of scored entries
EntryIds(entries) == {entries[i].hexagon_id : i \in 1..Len(entries)}

\* C1: the normalized composite score stored as HexagonData.score is in
\* [0, 1] for every hexagon the aggregation outputs, whatever the weights and
\* whichever normalized scores are present, null or missing.
C1_ScoreInUnitInterval ==
    /\ \A id \in DOMAIN hexagon_data_dict :
          0 <= hexagon_data_dict[id].score /\ hexagon_data_dict[id].score <= ScoreOne
    /\ Succeeded =>
          \A id \in DOMAIN response.hexagonData :
              0 <= response.hexagonData[id].score
                  /\ response.hexagonData[id].score <= ScoreOne

\* C1's case: a ranked response with a hexagon whose aggregated score is above
\* 1.0 and one whose aggregated score is below -1.0 (the clamp is active)
C1_Witness ==
    /\ Succeeded
    /\ \E i, j \in 1..Len(scored_data) :
          /\ scored_data[i].aggregated_score > WDen
          /\ response.hexagonData[scored_data[i].hexagon_id].score = ScoreOne
          /\ scored_data[j].aggregated_score < 0 - WDen
          /\ response.hexagonData[scored_data[j].hexagon_id].score = 0

\* C2: the hexagons scored are exactly the union of the hexagon_id values of
\* the three fetched tables (of the rows that carry one), one output per
\* hexagon.
C2_ScoredIsUnionOfTables ==
    Aggregated =>
        /\ DOMAIN hexagon_data_dict = FetchedIds
        /\ Len(scored_data) = Cardinality(FetchedIds)
        /\ EntryIds(scored_data) = FetchedIds
        /\ Len(ranked_data) = Cardinality(FetchedIds)
        /\ EntryIds(ranked_data) = FetchedIds
        /\ Succeeded => DOMAIN response.hexagonData = FetchedIds

\* C2's case: a ranked response for a store in which a hexagon is in one table
\* only, another hexagon is in no table, and a table has a row without
\* hexagon_id
C2_Witness ==
    /\ Succeeded
    /\ \E h \in HexagonIds :
          /\ h \in IdsOf(temperature_data)
          /\ h \notin IdsOf(grid_data) \cup IdsOf(network_data)
          /\ h \in DOMAIN response.hexagonData
    /\ \E h \in HexagonIds : h \notin FetchedIds /\ h \notin DOMAIN response.hexagonData
    /\ Len(grid_data) > 0 /\ IdsOf(grid_data) = {}

\* the ranking that a server process whose hash seed is 0 computes from the
\* weights and the tables of this request
RankingOfSeedZero ==
    LET gd == BuildDict(grid_data)
        nd == BuildDict(network_data)
        td == BuildDict(temperature_data)
    IN  Sorted(ScoredData(weights, gd, nd, td, SetIter(AllIds(gd, nd, td), 0)))

\* the WeightVector invariant: the weights sum to 1.0 and none is negative
WeightVectorOk(w) ==
    /\ w.score_grid + w.score_network + w.score_temperature = WDen
    /\ w.score_grid >= 0
    /\ w.score_network >= 0
    /\ w.score_temperature >= 0

\* C3: aggregation and ranking are deterministic: a run with the same weights
\* and the same tables gives the same ranked list and the same highlighted
\* hexagons, also among hexagons of equal aggregated score.  (Stated for
\* weights that satisfy the WeightVector invariant, and against the run of a
\* process whose hash seed is 0.)
C3_SameRankingInEveryRun ==
    (Aggregated /\ WeightVectorOk(weights)) =>
        /\ ranked_data = RankingOfSeedZero
        /\ DOMAIN top_hexagons = DOMAIN TopHexagons(RankingOfSeedZero)

\* the entries of a list of scored entries
Entries(entries) == {entries[i] : i \in 1..Len(entries)}

\* C4: the first k entries of the ranking are min(k, number of scored
\* hexagons) entries, in descending order of aggregated score, and no entry
\* left out has a strictly larger aggregated score than one of them; the
\* highlighted hexagons are those of the first five.
C4_TopKSelection ==
    Aggregated =>
        /\ Entries(ranked_data) = Entries(scored_data)
        /\ Len(ranked_data) = Len(scored_data)
        /\ \A k \in 0..(Len(scored_data) + 1) :
              LET top == Slice(ranked_data, k)
              IN  /\ Len(top) = Min2(k, Len(scored_data))
                  /\ Entries(top) \subseteq Entries(scored_data)
                  /\ Cardinality(Entries(top)) = Len(top)
                  /\ \A i \in 1..(Len(top) - 1) :
                        top[i].aggregated_score >= top[i + 1].aggregated_score
                  /\ \A e \in Entries(scored_data) \ Entries(top) :
                        \A i \in 1..Len(top) :
                            e.aggregated_score <= top[i].aggregated_score
        /\ DOMAIN top_hexagons = EntryIds(Slice(ranked_data, TOP_K))
        /\ Cardinality(DOMAIN top_hexagons) = Min2(TOP_K, Len(scored_data))
        /\ \A e \in Entries(Slice(ranked_data, TOP_K)) :
              top_hexagons[e.hexagon_id] = e.aggregated_score

\* C4's case: a ranked response over more than five hexagons, with different
\* scores among the first five and a tie between the fifth and the sixth
C4_Witness ==
    /\ Succeeded
    /\ Len(ranked_data) > TOP_K
    /\ ranked_data[1].aggregated_score > ranked_data[TOP_K].aggregated_score
    /\ ranked_data[TOP_K].aggregated_score = ranked_data[TOP_K + 1].aggregated_score
    /\ Cardinality(DOMAIN response.highlighted) = TOP_K

\* C5: the agent's weights are re-validated against the WeightVector
\* invariant: every ranked response was computed from weights that sum to 1.0
\* and are not negative.
C5_ResponseFromValidWeights == Succeeded => WeightVectorOk(weights)

\* C6: place-name resolution never fails the request: once the resolver has
\* been called, the request returns the ranked response, with a line for each
\* call.
C6_ResolutionNeverFailsRequest ==
    (pc = "done" /\ calls.resolver > 0) =>
        /\ response.status = 200
        /\ Len(response.response) = calls.resolver

\* the three tables have been fetched
FetchesSucceeded == calls.temperature_data = 1 /\ exception.type # "HTTPException"

\* C7: missing data is never an error: with weights that satisfy the
\* invariant and three fetches that succeed, the request returns the ranked
\* response whatever records, fields and scores the tables lack.
C7_MissingDataNeverAnError ==
    (pc = "done" /\ FetchesSucceeded /\ WeightVectorOk(weights)) =>
        response.status = 200

\* C8: a request gives exactly one response, the full ranked response or an
\* error without any result; a failed fetch gives a 500 that carries the
\* cause, agent output that fails the schema gives a 400.
C8_OneTerminalResponse ==
    /\ calls.responses = (IF pc = "done" THEN 1 ELSE 0)
    /\ pc # "done" => response.status = 0 /\ exception.type = "none"
    /\ pc = "done" =>
          \/ /\ response.status = 200
             /\ exception.type = "none"
             /\ DOMAIN response.hexagonData = FetchedIds
             /\ Len(response.response) = Len(Slice(ranked_data, TOP_K))
             /\ DOMAIN response.highlighted = EntryIds(Slice(ranked_data, TOP_K))
          \/ /\ response.status \in {400, 500}
             /\ exception.type # "none"
             /\ DOMAIN response = {"status", "detail"}
             /\ response.detail.cause = exception.text
    /\ exception.type = "HTTPException" =>
          /\ response.status = 500
          /\ response.detail.kind = "Internal error"
          /\ response.detail.cause[2] = TableAt(
                CASE calls.network_data = 0 /\ calls.temperature_data = 0 -> "fetch_grid"
                  [] calls.network_data = 1 /\ calls.temperature_data = 0 -> "fetch_network"
                  [] calls.temperature_data = 1 -> "fetch_temperature")
    /\ exception.type = "ValidationError" =>
          /\ response.status = 400
          /\ response.detail.kind = "Validation error"

\* C8's case: the fetch of the third table fails after two tables with rows
\* have been fetched; the response is the 500 alone
C8_Witness ==
    /\ pc = "done"
    /\ exception.type = "HTTPException"
    /\ exception.text = <<"Error fetching data from Supabase", "temperature_data">>
    /\ Len(grid_data) > 0
    /\ Len(network_data) > 0
    /\ response.status = 500

\* the HexagonData carries no normalized score
NoScores(hd) ==
    /\ hd.connection_normalized_score = None
    /\ hd.latency_normalized_score = None
    /\ hd.temperature_normalized_score = None

\* C9: a hexagon without a normalized score in any table has normalized
\* composite 0.0, and aggregated score -1.0 when the weights sum to 1.
C9_NoDataScoresZero ==
    Aggregated =>
        \A i \in 1..Len(scored_data) :
            LET e == scored_data[i]
                hd == hexagon_data_dict[e.hexagon_id]
            IN  NoScores(hd) =>
                    /\ hd.score = 0
                    /\ (weights.score_grid + weights.score_network
                            + weights.score_temperature = WDen)
                          => e.aggregated_score = 0 - WDen

\* C9's case: a ranked response, from weights that sum to 1, with a hexagon
\* that has a row with a null score and a row without the score, beside a
\* hexagon that has a score
C9_Witness ==
    /\ Succeeded
    /\ weights.score_grid + weights.score_network + weights.score_temperature = WDen
    /\ \E h \in DOMAIN response.hexagonData :
          /\ NoScores(response.hexagonData[h])
          /\ response.hexagonData[h].score = 0
          /\ response.highlighted[h] = 0 - WDen
    /\ \E h \in DOMAIN response.hexagonData : ~NoScores(response.hexagonData[h])

\* C10: raising the normalized score of one dimension of a hexagon, the other
\* two and the weights unchanged, never lowers its aggregated score.
C10_MonotoneInEachScore ==
    Aggregated =>
        \A i \in 1..Len(scored_data) :
            LET e == scored_data[i]
                g == GridNorm(BuildDict(grid_data), e.hexagon_id)
                n == NetworkNorm(BuildDict(network_data), e.hexagon_id)
                t == TempNorm(BuildDict(temperature_data), e.hexagon_id)
            IN  \A v \in NormVals :
                    /\ v > g => AggregatedScore(weights, v, n, t) >= e.aggregated_score
                    /\ v > n => AggregatedScore(weights, g, v, t) >= e.aggregated_score
                    /\ v > t => AggregatedScore(weights, g, n, v) >= e.aggregated_score

\* the three tables have each been fetched, none of the fetches failing
AllFetched ==
    /\ calls.grid_data = 1
    /\ calls.network_data = 1
    /\ calls.temperature_data = 1
    /\ exception.type # "HTTPException"

\* C11: within one request the external calls are bounded and never retried:
\* the agent and each table are called at most once, the resolver at most once
\* per entry of the first five (one call per line written), no table is
\* fetched before the agent's weights have passed validation, the tables are
\* fetched in order, and the resolver is not called unless all three fetches
\* succeeded.
C11_CallsBoundedAndOrdered ==
    /\ calls.agent <= 1
    /\ \A t \in Tables : calls[t] <= 1
    /\ calls.resolver <= TOP_K
    /\ calls.resolver <= Min2(TOP_K, Cardinality(FetchedIds))
    /\ exception.type # "H3CellInvalidError" => calls.resolver = Len(response_message)
    /\ exception.type = "H3CellInvalidError" => calls.resolver = Len(response_message) + 1
    /\ (\E t \in Tables : calls[t] > 0) =>
          calls.agent = 1 /\ DOMAIN weights = ScorerFields
    /\ calls.network_data > 0 => calls.grid_data = 1
    /\ calls.temperature_data > 0 => calls.network_data = 1
    /\ calls.resolver > 0 => AllFetched

\* C11's case: a ranked response over more than five hexagons, for which the
\* resolver was called five times after one fetch of each table
C11_Witness ==
    /\ Succeeded
    /\ Len(ranked_data) > TOP_K
    /\ calls.resolver = TOP_K
    /\ AllFetched

\* a normalized score of the output, -1 standing for one that is null
Known(x) == IF x = None THEN -1 ELSE x[1]

\* the weighted sum of the three normalized scores that the HexagonData hd
\* shows, -1 standing for each that is missing or null
WeightedSum(w, hd) ==
    w.score_grid * Known(hd.connection_normalized_score)
        + w.score_network * Known(hd.latency_normalized_score)
        + w.score_temperature * Known(hd.temperature_normalized_score)

\* C12: for weights that are not negative and sum to 1 (and normalized scores
\* in [-1, 1]) the raw composite of a hexagon is the weighted sum of its three
\* scores with -1 for each missing or null one and lies in [-1, 1]; with at
\* least one known score the normalized composite is (raw + 1) / 2, the clamp
\* not active.  Grid 1.0, network -1.0, temperature missing and the weights
\* 0.5, 0.5, 0.0 give raw 0.0 and normalized 0.5; three scores 1.0 and
\* equal weights give raw 1.0 and normalized 1.0.
C12_CompositeFormula ==
    (Aggregated /\ WeightVectorOk(weights)) =>
        \A i \in 1..Len(scored_data) :
            LET e == scored_data[i]
                hd == hexagon_data_dict[e.hexagon_id]
                w == weights
            IN  /\ e.aggregated_score = WeightedSum(w, hd)
                /\ 0 - WDen <= e.aggregated_score
                /\ e.aggregated_score <= WDen
                /\ ~NoScores(hd) => hd.score = e.aggregated_score + WDen
                /\ ( /\ 2 * w.score_grid = WDen
                     /\ 2 * w.score_network = WDen
                     /\ w.score_temperature = 0
                     /\ hd.connection_normalized_score = Some(1)
                     /\ hd.latency_normalized_score = Some(-1)
                     /\ hd.temperature_normalized_score = None ) =>
                      e.aggregated_score = 0 /\ 2 * hd.score = ScoreOne
                /\ ( /\ w.score_grid = w.score_network
                     /\ w.score_network = w.score_temperature
                     /\ hd.connection_normalized_score = Some(1)
                     /\ hd.latency_normalized_score = Some(1)
                     /\ hd.temperature_normalized_score = Some(1) ) =>
                      e.aggregated_score = WDen /\ hd.score = ScoreOne

\* C12's case: a ranked response for the weights 0.5, 0.5, 0.0 and a hexagon
\* of grid score 1, network score -1 and no temperature score: raw 0.0,
\* normalized 0.5
C12_Witness ==
    /\ Succeeded
    /\ weights = Weights(WDen \div 2, 0, WDen \div 2)
    /\ WeightVectorOk(weights)
    /\ \E h \in DOMAIN response.hexagonData :
          /\ response.hexagonData[h].connection_normalized_score = Some(1)
          /\ response.hexagonData[h].latency_normalized_score = Some(-1)
          /\ response.hexagonData[h].temperature_normalized_score = None
          /\ response.highlighted[h] = 0
          /\ 2 * response.hexagonData[h].score = ScoreOne

\* the normalized composite of the i-th entry of the ranking
RankedScore(i) == hexagon_data_dict[ranked_data[i].hexagon_id].score

\* the i-th entry of the ranking has no known score in any dimension
RankedNoData(i) == NoScores(hexagon_data_dict[ranked_data[i].hexagon_id])

\* C13: ranking by raw composite and ranking by normalized composite agree:
\* along the ranking the normalized composites do not increase, two hexagons
\* with data and different raw composites are not ordered the other way by
\* their normalized composites, and a hexagon without any known score comes
\* after every hexagon whose raw composite is greater than -1.
C13_RankingsAgree ==
    Aggregated =>
        \A i, j \in 1..Len(ranked_data) :
            /\ i < j => RankedScore(i) >= RankedScore(j)
            /\ ( /\ ~RankedNoData(i)
                 /\ ~RankedNoData(j)
                 /\ ranked_data[i].aggregated_score > ranked_data[j].aggregated_score ) =>
                  RankedScore(i) >= RankedScore(j)
            /\ (i # j /\ RankedNoData(i) /\ ranked_data[j].aggregated_score > 0 - WDen)
                  => j < i

\* the information request has returned the HexagonData of the highlighted
\* hexagons
InformationShowsHexagons ==
    information_response.status = 200 /\ information_response.hexagonData # None

RowsOf(data, h) ==
    {i \in 1..Len(data) :
        "hexagon_id" \in DOMAIN data[i] /\ data[i]["hexagon_id"] = Some(h)}

\* the last row of hexagon h in a fetched table, an empty row if there is none
LastRow(data, h) ==
    IF RowsOf(data, h) = {} THEN EmptyDict
    ELSE data[CHOOSE i \in RowsOf(data, h) : \A j \in RowsOf(data, h) : j <= i]

\* C15: when a table has several rows of one hexagon, the last of them in the
\* fetched sequence alone gives that table's score and display fields (a
\* field it lacks is not taken from an earlier row), and the hexagon is in the
\* output exactly once.
C15_LastDuplicateWins ==
    Aggregated =>
        \A h \in FetchedIds :
            LET g == LastRow(grid_data, h)
                n == LastRow(network_data, h)
                t == LastRow(temperature_data, h)
                hd == hexagon_data_dict[h]
                at == {i \in 1..Len(scored_data) : scored_data[i].hexagon_id = h}
            IN  /\ hd.connection_points = Get(g, "connection_points")
                /\ hd.connection_normalized_score = Get(g, "connection_normalized_score")
                /\ hd.latency_ms = Get(n, "latency_ms")
                /\ hd.latency_normalized_score = Get(n, "latency_normalized_score")
                /\ hd.avg_temperature = Get(t, "avg_temperature")
                /\ hd.temperature_normalized_score = Get(t, "temperature_normalized_score")
                /\ Cardinality(at) = 1
                /\ Cardinality({i \in 1..Len(ranked_data) : ranked_data[i].hexagon_id = h}) = 1
                /\ \A i \in at :
                      scored_data[i].aggregated_score =
                          AggregatedScore(weights,
                              Known(Get(g, "connection_normalized_score")),
                              Known(Get(n, "latency_normalized_score")),
                              Known(Get(t, "temperature_normalized_score")))

\* C15's case: a ranked response for a grid_data of two rows of one hexagon,
\* the first with the score 1 and the second without a score: the response
\* shows the second row's measurement and no score
C15_Witness ==
    /\ Succeeded
    /\ Len(grid_data) = 2
    /\ \E h \in HexagonIds :
          /\ RowsOf(grid_data, h) = {1, 2}
          /\ Get(grid_data[1], "connection_normalized_score") = Some(1)
          /\ "connection_normalized_score" \notin DOMAIN grid_data[2]
          /\ response.hexagonData[h].connection_points = Some(2)
          /\ response.hexagonData[h].connection_normalized_score = None
          /\ DOMAIN response.hexagonData = {h}

\* C16: in a ranked response the three parts agree: the message has one line
\* for each key of `highlighted`, in the order of the ranking, with that
\* hexagon's place and its highlighted value; every key of `highlighted` is a
\* key of `hexagonData`; `highlighted` has min(5, number of scored hexagons)
\* entries; and the hexagonData score of a highlighted hexagon is the
\* normalized form of its highlighted value: 0.0 for a hexagon without any
\* known score, otherwise (value + 1) / 2 clamped to [0, 1].
C16_ResponsePartsAgree ==
    Succeeded =>
        LET lines == response.response
            listed == {ranked_data[i].hexagon_id : i \in 1..Len(lines)}
        IN  /\ listed = DOMAIN response.highlighted
            /\ Len(lines) = Cardinality(DOMAIN response.highlighted)
            /\ \A i \in 1..Len(lines) :
                  /\ lines[i].place \in {Town(ranked_data[i].hexagon_id), Unknown}
                  /\ lines[i].score =
                        Format2f(response.highlighted[ranked_data[i].hexagon_id])
            /\ DOMAIN response.highlighted \subseteq DOMAIN response.hexagonData
            /\ Cardinality(DOMAIN response.highlighted) =
                  Min2(TOP_K, Cardinality(DOMAIN response.hexagonData))
            /\ \A id \in DOMAIN response.highlighted :
                  response.hexagonData[id].score =
                      IF NoScores(response.hexagonData[id]) THEN 0
                      ELSE Max2(0, Min2(ScoreOne, response.highlighted[id] + WDen))

====
